---- MODULE Spec2Model ----
(***************************************************************************)
(* A model of shayanderson/httpd: the router (httpd.go), its route adapter *)
(* and error render policy, and the Logger / Recover middleware.           *)
(*                                                                         *)
(* A composed http.Handler is modelled as the sequence of its layers,      *)
(* outermost first, ending in its terminal handler ("mux" or "route").     *)
(* A request is served step by step: every middleware is entered, the      *)
(* terminal handler runs, and every entered middleware is left again,      *)
(* either by a normal return or by a panic unwinding through it.           *)
(*                                                                         *)
(* Strings that the code only passes around are TLA+ strings.  Error       *)
(* messages are sequences of one-character strings, so that json.Marshal   *)
(* can be modelled by what it does to each character.                      *)
(***************************************************************************)
EXTENDS Integers, Sequences, FiniteSets, TLC

VARIABLES
    DefaultErrorHandler, \* httpd.go:11, the package variable: "default" or "custom"
    mw,                  \* Router.mw, the global middleware list
    routes,              \* Router.mux, the registrations made through Router.route
    lastSetup,           \* history: the latest setup operation (none, Use, route, SetErrorHandler)
    mode,                \* where the request in flight is: idle, in, out, panic, done, aborted
    req,                 \* the request being served: [method, path]
    chain,               \* the layers of the composed handler not entered yet
    stack,               \* the middleware entered and not left yet, outermost first
    rec,                 \* the underlying http.ResponseWriter (httptest.ResponseRecorder)
    calls,               \* the calls that reached the underlying writer, in order
    trace,               \* the order in which layers were entered and left
    slog,                \* the records handed to log/slog, in order
    renders,             \* the calls of the error render policy, in order
    ran,                 \* what the route handler did, once per run of it
    rIn,                 \* render check: the errors handed to the render policy
    rOut,                \* render check: the responses it produced
    obs,                 \* writer check: a responseWriter and the calls made on it
    conc                 \* concurrency check: the requests inside LoggerMiddleware

dispatchVars == <<DefaultErrorHandler, mw, routes, lastSetup, mode, req, chain, stack, rec,
                  calls, trace, slog, renders, ran>>
renderVars == <<rIn, rOut>>
unitVars == <<obs, conc>>
vars == <<dispatchVars, renderVars, unitVars>>

(***************************************************************************)
(* Bounds and input sets                                                   *)
(***************************************************************************)
MaxGlobalMw == 2
MaxMsgLen == 2

Methods == {"GET", "POST"}
Patterns == {"/a"}
Paths == {"/a", "/b"}
GlobalMiddleware == {"A", "B", "Logger", "Recover"}
RouteMiddlewareLists == {<<>>, <<"C">>, <<"Recover">>}
Alphabet == {"a", "\"", "<"}

StatusOK == 200
StatusNotFound == 404
StatusMethodNotAllowed == 405
StatusInternalServerError == 500

\* the statuses handed to NewError
Statuses == {StatusNotFound, StatusMethodNotAllowed, StatusInternalServerError}

HeaderKeys == {"Content-Type", "Connection", "X-Test", "Allow", "X-Content-Type-Options"}

RECURSIVE SeqsUpTo(_, _)
SeqsUpTo(S, n) ==
    IF n = 0 THEN {<<>>}
    ELSE LET shorter == SeqsUpTo(S, n - 1)
         IN  shorter \cup {Append(s, x) : s \in shorter, x \in S}

Messages == SeqsUpTo(Alphabet, MaxMsgLen)

(***************************************************************************)
(* Errors                                                                  *)
(***************************************************************************)
NilError == [kind |-> "nil", msg |-> <<>>, isResponseError |-> FALSE, status |-> 0]

\* errors.New(msg): an error that does not implement the Error interface
PlainError(msg) ==
    [kind |-> "plain", msg |-> msg, isResponseError |-> FALSE, status |-> 0]

\* mutant: a call that omits the flag gets an error whose message is exposed
NewErrorFailOpen(status, msg, flags) ==
    [kind |-> "status", msg |-> msg,
     isResponseError |-> Len(flags) = 0 \/ flags[1],
     status |-> status]

\* NewError(status, err, isResponseError ...bool); flags is the variadic tail
NewError(status, msg, flags) ==
    [kind |-> "status", msg |-> msg,
     isResponseError |-> Len(flags) > 0 /\ flags[1],
     status |-> status]

\* the type assertion err.(Error)
IsErrorInterface(err) == err.kind = "status"

ErrorText(err) == err.msg

InternalServerErrorText ==
    <<"i","n","t","e","r","n","a","l"," ","s","e","r","v","e","r"," ","e","r","r","o","r">>

RecoveringText ==
    <<"r","e","c","o","v","e","r","i","n","g"," ","f","r","o","m"," ","p","a","n","i","c">>

(***************************************************************************)
(* json.Marshal of a map[string]string                                     *)
(***************************************************************************)
JsonEscapeChar(c) ==
    CASE c = "\"" -> "\\\""
      [] c = "\\" -> "\\\\"
      [] c = "<"  -> "\\u003c"
      [] c = ">"  -> "\\u003e"
      [] c = "&"  -> "\\u0026"
      [] OTHER    -> c

RECURSIVE JsonEscape(_)
JsonEscape(s) ==
    IF s = <<>> THEN "" ELSE JsonEscapeChar(Head(s)) \o JsonEscape(Tail(s))

JsonString(s) == "\"" \o JsonEscape(s) \o "\""

\* payload: [encodable, key, value]; json.Marshal returns (body, err)
JsonMarshal(payload) ==
    IF payload.encodable
    THEN [ok |-> TRUE, body |-> "{" \o JsonString(payload.key) \o ":"
                                     \o JsonString(payload.value) \o "}"]
    ELSE [ok |-> FALSE, body |-> ""]

ErrorPayload(text) ==
    [encodable |-> TRUE, key |-> <<"e","r","r","o","r">>, value |-> text]

(***************************************************************************)
(* The response writer.  rec is the writer at the bottom (the recorder of  *)
(* the tests, the connection in a server): the first WriteHeader wins, a   *)
(* Write before any WriteHeader sends an implicit 200, and the headers     *)
(* that are sent are the ones set when the status is written.              *)
(* A writer value w is what a layer holds: the recorder, the call log and  *)
(* the frames outside the layer, whose Logger frames each carry the        *)
(* captured status of their responseWriter.                                *)
(***************************************************************************)
NoHeaders == [k \in HeaderKeys |-> ""]

\* httptest.NewRecorder()
NewRecorder ==
    [wroteHeader |-> FALSE, code |-> StatusOK, body |-> "",
     header |-> NoHeaders, sent |-> NoHeaders]

RecWriteHeader(rc, code) ==
    IF rc.wroteHeader THEN rc
    ELSE [rc EXCEPT !.wroteHeader = TRUE, !.code = code, !.sent = rc.header]

RecWrite(rc, b) ==
    LET r1 == IF rc.wroteHeader THEN rc ELSE RecWriteHeader(rc, StatusOK)
    IN  [r1 EXCEPT !.body = @ \o b]

\* one call on the underlying writer: op, its status or its text, the caller,
\* and the number of frames the call passed through on its way down
Call(op, status, text, w) ==
    [op |-> op, status |-> status, text |-> text, by |-> w.by, depth |-> Len(w.frames)]

\* a writer value: the recorder, the call log, the frames around the holder
Writer(rc, cl, frames, by) == [rec |-> rc, calls |-> cl, frames |-> frames, by |-> by]

\* the writer held by the layer of the request in flight that has `frames` outside it
WriterAt(frames, by) == Writer(rec, calls, frames, by)

WithCaller(w, by) == [w EXCEPT !.by = by]

\* responseWriter.Header().Set(k, v): passes through to the recorder
HeaderSet(w, k, v) ==
    [w EXCEPT !.rec.header[k] = v,
              !.calls = Append(w.calls, Call("Header.Set", 0, k \o ": " \o v, w))]

\* responseWriter.Write: passes through
Write(w, b) ==
    [w EXCEPT !.rec = RecWrite(w.rec, b),
              !.calls = Append(w.calls, Call("Write", 0, b, w))]

\* mutant: the status is forwarded and not recorded
ObserveNothing(frame, status) == frame

\* mutant: only the first status is recorded
ObserveFirstStatus(frame, status) ==
    IF frame.kind = "Logger" /\ frame.status = 0
    THEN [frame EXCEPT !.status = status, !.writes = @ + 1] ELSE frame

\* what one responseWriter does with a WriteHeader on its way down:
\* (*r.status) = status
ObserveStatus(frame, status) ==
    IF frame.kind = "Logger"
    THEN [frame EXCEPT !.status = status, !.writes = @ + 1] ELSE frame

\* responseWriter.WriteHeader: every observer on the way records, then forwards
WriteHeader(w, status) ==
    [w EXCEPT !.frames = [i \in DOMAIN w.frames |-> ObserveStatus(w.frames[i], status)],
              !.rec = RecWriteHeader(w.rec, status),
              !.calls = Append(w.calls, Call("WriteHeader", status, "", w))]

\* mutant: the body is written and the status is not
RespondBodyOnly(w, status, payload) == Write(w, payload)

\* w.WriteHeader(status); w.Write(payload)
Respond(w, status, payload) == Write(WriteHeader(w, status), payload)

\* mutant: the header is set before the payload is encoded
RespondJSONHeaderFirst(w, status, payload) ==
    LET m == JsonMarshal(payload)
        h == HeaderSet(w, "Content-Type", "application/json")
    IN  IF ~m.ok THEN [w |-> h, err |-> TRUE]
        ELSE [w |-> Respond(h, status, m.body), err |-> FALSE]

\* returns [w, err]: err is TRUE when json.Marshal failed
RespondJSON(w, status, payload) ==
    LET m == JsonMarshal(payload)
    IN  IF ~m.ok THEN [w |-> w, err |-> TRUE]
        ELSE [w |-> Respond(HeaderSet(w, "Content-Type", "application/json"),
                            status, m.body),
              err |-> FALSE]

(***************************************************************************)
(* The error render policy                                                 *)
(***************************************************************************)
\* mutant: the status of the error is not looked at
ResolvedStatusFixed(err) == StatusInternalServerError

\* status := 500; if e, ok := err.(Error); ok { status = e.Status() }
ResolvedStatus(err) ==
    IF IsErrorInterface(err) THEN err.status ELSE StatusInternalServerError

\* mutant: the text of every error is put in the response
ResolvedTextOfError(err) == ErrorText(err)

\* resErr := "internal server error"; if e.IsResponseError() { resErr = e.Error() }
ResolvedText(err) ==
    IF IsErrorInterface(err) /\ err.isResponseError
    THEN ErrorText(err) ELSE InternalServerErrorText

\* returns [w, log]: the writer afterwards and the slog.Error record
defaultErrorHandler(w, err) ==
    [w |-> RespondJSON(w, ResolvedStatus(err), ErrorPayload(ResolvedText(err))).w,
     log |-> [msg |-> "[httpd]", depth |-> 0, status |-> ResolvedStatus(err)]]

\* the handler of the README: its body is left open, it writes nothing
customErrorHandler(w, err) ==
    [w |-> w, log |-> [msg |-> "custom", depth |-> 0, status |-> 0]]

\* mutant: the built-in function is called, not the variable
BuiltinErrorHandler == "default"

\* the function the package variable holds, read when the call is made
ActiveErrorHandler == DefaultErrorHandler

CallErrorHandler(policy, w, err) ==
    IF policy = "default" THEN defaultErrorHandler(w, err)
    ELSE customErrorHandler(w, err)

(***************************************************************************)
(* Middleware composition                                                  *)
(***************************************************************************)
\* middleware[i](h): the handler that runs middleware[i] around h
Wrap(m, h) == <<m>> \o h

\* mutant: the loop runs upwards, for i := 0; i < len(middleware); i++
RECURSIVE FoldMiddlewareUpwards(_, _, _)
FoldMiddlewareUpwards(middleware, i, h) ==
    IF i < 1 THEN h
    ELSE Wrap(middleware[i], FoldMiddlewareUpwards(middleware, i - 1, h))

\* for i := len(middleware) - 1; i >= 0; i-- { h = middleware[i](h) }
RECURSIVE FoldMiddleware(_, _, _)
FoldMiddleware(middleware, i, h) ==
    IF i < 1 THEN h
    ELSE FoldMiddleware(middleware, i - 1, Wrap(middleware[i], h))

\* the handler Router.route registers: the per-route chain around the route
ComposeRoute(middleware) == FoldMiddleware(middleware, Len(middleware), <<"route">>)

\* the handler Router.ServeHTTP builds: the global chain around the mux
ComposeGlobal(middleware) == FoldMiddleware(middleware, Len(middleware), <<"mux">>)

(***************************************************************************)
(* Setup: Use, the registrations, the replacement of the render policy     *)
(***************************************************************************)
\* a middleware entered and not left; a Logger frame is the responseWriter of
\* that middleware: status is the captured status (status := 0), writes the
\* number of assignments made to it
Frame(kind) == [kind |-> kind, status |-> 0, writes |-> 0]
InEvent(layer) == [ev |-> "in", layer |-> layer]
OutEvent(layer) == [ev |-> "out", layer |-> layer]
RunEvent(layer) == [ev |-> "run", layer |-> layer]

NoRequest == [method |-> "", path |-> ""]

requestVars == <<req, chain, stack, rec, calls, trace, slog, renders, ran>>

FreshRequest ==
    /\ req = NoRequest
    /\ chain = <<>>
    /\ stack = <<>>
    /\ rec = NewRecorder
    /\ calls = <<>>
    /\ trace = <<>>
    /\ slog = <<>>
    /\ renders = <<>>
    /\ ran = <<>>

\* the checks of single parts are not running
NoObserver == <<>>
NoRequests == <<>>

Init ==
    /\ DefaultErrorHandler = "default"
    /\ mw = <<>>
    /\ routes = {}
    /\ lastSetup = "none"
    /\ mode = "idle"
    /\ FreshRequest
    /\ rIn = <<>>
    /\ rOut = <<>>
    /\ obs = NoObserver
    /\ conc = NoRequests

\* mutant: the list is replaced, r.mw = middleware
UseReplacing(middleware) ==
    /\ mode = "idle"
    /\ Len(mw) + Len(middleware) <= MaxGlobalMw
    /\ mw' = middleware
    /\ lastSetup' = "Use"
    /\ UNCHANGED <<DefaultErrorHandler, routes, mode, requestVars, renderVars, unitVars>>

\* r.mw = append(r.mw, middleware...)
Use(middleware) ==
    /\ mode = "idle"
    /\ Len(mw) + Len(middleware) <= MaxGlobalMw
    /\ mw' = mw \o middleware
    /\ lastSetup' = "Use"
    /\ UNCHANGED <<DefaultErrorHandler, routes, mode, requestVars, renderVars, unitVars>>

Registered(method, pattern) ==
    \E r \in routes : r.method = method /\ r.pattern = pattern

\* the pattern string the mux is given for a method and a path pattern
MuxKey(method, pattern) == method \o " " \o pattern

\* mutant: the method is left out of the pattern string
RegistrationWithoutMethod(method, pattern, middleware) ==
    [method |-> method, pattern |-> pattern, key |-> pattern,
     handler |-> ComposeRoute(middleware)]

\* what Router.route hands to the mux: the pattern string method+" "+pattern
\* and the composed handler (method and pattern are kept as given)
Registration(method, pattern, middleware) ==
    [method |-> method, pattern |-> pattern, key |-> MuxKey(method, pattern),
     handler |-> ComposeRoute(middleware)]

\* Router.route: r.mux.Handle(method+" "+pattern, h); the mux refuses a
\* pattern that is registered already
route(method, pattern, middleware) ==
    /\ mode = "idle"
    /\ ~Registered(method, pattern)
    /\ routes' = routes \cup {Registration(method, pattern, middleware)}
    /\ lastSetup' = "route"
    /\ UNCHANGED <<DefaultErrorHandler, mw, mode, requestVars, renderVars, unitVars>>

\* httpd.DefaultErrorHandler = customErrorHandler
SetErrorHandler(policy) ==
    /\ mode = "idle"
    /\ DefaultErrorHandler' = policy
    /\ lastSetup' = "SetErrorHandler"
    /\ UNCHANGED <<mw, routes, mode, requestVars, renderVars, unitVars>>

(***************************************************************************)
(* Serving one request                                                     *)
(***************************************************************************)
Tags == {"A", "B", "C"}

\* mutant: the fold takes the middleware off the list of the router
ServeHTTPConsuming(method, path) ==
    /\ mode = "idle"
    /\ req' = [method |-> method, path |-> path]
    /\ chain' = ComposeGlobal(mw)
    /\ mode' = "in"
    /\ mw' = <<>>
    /\ UNCHANGED <<DefaultErrorHandler, routes, lastSetup, stack, rec, calls, trace, slog,
                   renders, ran, renderVars, unitVars>>

\* Router.ServeHTTP: fold the global list around the mux, then call it
ServeHTTP(method, path) ==
    /\ mode = "idle"
    /\ req' = [method |-> method, path |-> path]
    /\ chain' = ComposeGlobal(mw)
    /\ mode' = "in"
    /\ UNCHANGED <<DefaultErrorHandler, mw, routes, lastSetup, stack, rec, calls, trace, slog,
                   renders, ran, renderVars, unitVars>>

\* the state a layer leaves behind after using its writer w
Written(w, inner) ==
    /\ rec' = w.rec
    /\ calls' = w.calls
    /\ stack' = w.frames \o inner

\* a middleware as the tests write it: set a header, call next, and (here)
\* a part after next, which a panic below skips
TagEnter ==
    /\ mode = "in"
    /\ chain # <<>>
    /\ Head(chain) \in Tags
    /\ Written(HeaderSet(WriterAt(stack, Head(chain)), "X-Test", "test"),
               <<Frame(Head(chain))>>)
    /\ trace' = Append(trace, InEvent(Head(chain)))
    /\ chain' = Tail(chain)
    /\ UNCHANGED <<DefaultErrorHandler, mw, routes, lastSetup, mode, req, slog, renders, ran,
                   renderVars, unitVars>>

TagExit ==
    /\ mode \in {"out", "panic"}
    /\ stack # <<>>
    /\ stack[Len(stack)].kind \in Tags
    /\ stack' = SubSeq(stack, 1, Len(stack) - 1)
    /\ trace' = IF mode = "out"
                THEN Append(trace, OutEvent(stack[Len(stack)].kind))
                ELSE trace
    /\ UNCHANGED <<DefaultErrorHandler, mw, routes, lastSetup, mode, req, chain, rec, calls,
                   slog, renders, ran, renderVars, unitVars>>

\* LoggerMiddleware up to next.ServeHTTP(rw, r): status := 0, rw wraps w
LoggerEnter ==
    /\ mode = "in"
    /\ chain # <<>>
    /\ Head(chain) = "Logger"
    /\ stack' = Append(stack, Frame("Logger"))
    /\ trace' = Append(trace, InEvent("Logger"))
    /\ chain' = Tail(chain)
    /\ UNCHANGED <<DefaultErrorHandler, mw, routes, lastSetup, mode, req, rec, calls, slog,
                   renders, ran, renderVars, unitVars>>

\* mutant: a status that was never written is reported as 200
LoggedStatusDefaulted(frame) == IF frame.status = 0 THEN StatusOK ELSE frame.status

\* the status the deferred function of LoggerMiddleware reports: *rw.status
LoggedStatus(frame) == frame.status

\* mutant: the record is written after next.ServeHTTP returns, not deferred
LoggerExitNotDeferred ==
    /\ mode \in {"out", "panic"}
    /\ stack # <<>>
    /\ stack[Len(stack)].kind = "Logger"
    /\ slog' = IF mode = "out"
               THEN Append(slog, [msg |-> "logger", depth |-> Len(stack),
                                  status |-> LoggedStatus(stack[Len(stack)])])
               ELSE slog
    /\ stack' = SubSeq(stack, 1, Len(stack) - 1)
    /\ trace' = Append(trace, OutEvent("Logger"))
    /\ UNCHANGED <<DefaultErrorHandler, mw, routes, lastSetup, mode, req, chain, rec, calls,
                   renders, ran, renderVars, unitVars>>

\* the deferred function of LoggerMiddleware: runs on return and on panic
LoggerExit ==
    /\ mode \in {"out", "panic"}
    /\ stack # <<>>
    /\ stack[Len(stack)].kind = "Logger"
    /\ slog' = Append(slog, [msg |-> "logger", depth |-> Len(stack),
                             status |-> LoggedStatus(stack[Len(stack)])])
    /\ stack' = SubSeq(stack, 1, Len(stack) - 1)
    /\ trace' = Append(trace, OutEvent("Logger"))
    /\ UNCHANGED <<DefaultErrorHandler, mw, routes, lastSetup, mode, req, chain, rec, calls,
                   renders, ran, renderVars, unitVars>>

\* RecoverMiddleware up to next.ServeHTTP(w, r): the guard is installed
RecoverEnter ==
    /\ mode = "in"
    /\ chain # <<>>
    /\ Head(chain) = "Recover"
    /\ stack' = Append(stack, Frame("Recover"))
    /\ trace' = Append(trace, InEvent("Recover"))
    /\ chain' = Tail(chain)
    /\ UNCHANGED <<DefaultErrorHandler, mw, routes, lastSetup, mode, req, rec, calls, slog,
                   renders, ran, renderVars, unitVars>>

Render(by, policy, err) == [by |-> by, policy |-> policy, err |-> err]

\* mutant: the Connection header is not set
RecoverRenderWithoutClose(w) ==
    CallErrorHandler(ActiveErrorHandler, WithCaller(w, "policy"),
                     PlainError(RecoveringText))

\* w.Header().Set("Connection", "close"), then the render of the panic
RecoverRender(w) ==
    CallErrorHandler(ActiveErrorHandler,
                     WithCaller(HeaderSet(w, "Connection", "close"), "policy"),
                     PlainError(RecoveringText))

\* mutant: the panic is raised again after it has been rendered
RecoveredAndRaisedAgain(w) ==
    LET out == RecoverRender(w)
    IN  [w |-> out.w,
         slog |-> slog \o <<[msg |-> "recovering from panic",
                              depth |-> Len(w.frames) + 1, status |-> 0],
                            out.log>>,
         renders |-> Append(renders,
                            Render("recover", ActiveErrorHandler,
                                   PlainError(RecoveringText))),
         mode |-> "panic"]

\* what the deferred function of RecoverMiddleware does with a panic:
\* [w, slog, renders, mode] afterwards; recover() ends the panic
Recovered(w) ==
    LET out == RecoverRender(w)
    IN  [w |-> out.w,
         slog |-> slog \o <<[msg |-> "recovering from panic",
                              depth |-> Len(w.frames) + 1, status |-> 0],
                            out.log>>,
         renders |-> Append(renders,
                            Render("recover", ActiveErrorHandler,
                                   PlainError(RecoveringText))),
         mode |-> "out"]

\* the deferred function of RecoverMiddleware
RecoverExit ==
    /\ mode \in {"out", "panic"}
    /\ stack # <<>>
    /\ stack[Len(stack)].kind = "Recover"
    /\ trace' = Append(trace, OutEvent("Recover"))
    /\ IF mode = "panic"
       THEN LET r == Recovered(WriterAt(SubSeq(stack, 1, Len(stack) - 1), "recover"))
            IN  /\ Written(r.w, <<>>)
                /\ slog' = r.slog
                /\ renders' = r.renders
                /\ mode' = r.mode
       ELSE /\ stack' = SubSeq(stack, 1, Len(stack) - 1)
            /\ UNCHANGED <<rec, calls, slog, renders, mode>>
    /\ UNCHANGED <<DefaultErrorHandler, mw, routes, lastSetup, req, chain, ran, renderVars,
                   unitVars>>

(***************************************************************************)
(* The mux (net/http.ServeMux) and the route adapter                       *)
(***************************************************************************)
\* mutant: the mux dispatches on the path alone
LookupAnyMethod(method, path) ==
    LET matching == {r \in routes : r.pattern = path}
    IN  IF matching # {}
        THEN [kind |-> "match", handler |-> (CHOOSE r \in matching : TRUE).handler]
        ELSE [kind |-> "404", handler |-> <<>>]

\* what the mux finds for a request: the handler registered under the
\* request's method and path (a pattern string without a method matches every
\* method), or the miss: 405 when the path is registered under other methods
\* only, 404 when it is not registered
Lookup(method, path) ==
    LET matching == {r \in routes : r.key \in {MuxKey(method, path), path}}
        others   == {r \in routes : \E m \in Methods : r.key = MuxKey(m, path)}
    IN  IF matching # {}
        THEN [kind |-> "match", handler |-> (CHOOSE r \in matching : TRUE).handler]
        ELSE IF others # {}
             THEN [kind |-> "405", handler |-> <<>>]
             ELSE [kind |-> "404", handler |-> <<>>]

\* http.Error(w, text, code)
HttpError(w, text, code) ==
    Write(WriteHeader(HeaderSet(HeaderSet(w, "Content-Type", "text/plain; charset=utf-8"),
                                "X-Content-Type-Options", "nosniff"),
                      code),
          text \o "\n")

\* the methods registered for a path; one of them at most differs from the
\* method of a request that got a 405 here, as there are two methods
AllowHeader(path) ==
    (CHOOSE r \in routes : \E m \in Methods : r.key = MuxKey(m, path)).method

\* r.mux.ServeHTTP: dispatch to the registered handler, or answer 404 / 405
MuxServe ==
    /\ mode = "in"
    /\ chain = <<"mux">>
    /\ trace' = Append(trace, RunEvent("mux"))
    /\ LET found == Lookup(req.method, req.path)
           w == WriterAt(stack, "mux")
       IN  CASE found.kind = "match" ->
                  /\ chain' = found.handler
                  /\ UNCHANGED <<mode, stack, rec, calls>>
             [] found.kind = "405" ->
                  /\ Written(HttpError(HeaderSet(w, "Allow", AllowHeader(req.path)),
                                       "Method Not Allowed", StatusMethodNotAllowed),
                             <<>>)
                  /\ chain' = <<>>
                  /\ mode' = "out"
             [] OTHER ->
                  /\ Written(HttpError(w, "404 page not found", StatusNotFound), <<>>)
                  /\ chain' = <<>>
                  /\ mode' = "out"
    /\ UNCHANGED <<DefaultErrorHandler, mw, routes, lastSetup, req, slog, renders, ran,
                   renderVars, unitVars>>

\* what a route handler may do: write nothing, write a body without a status,
\* or Respond(w, 200, ...); then return nil, return an error, or panic
PreWrites == {"none", "Write", "Respond"}
RouteMessages == {<<"a">>, <<"\"">>}
RouteErrors ==
    {PlainError(m) : m \in RouteMessages}
    \cup {NewError(StatusNotFound, m, <<TRUE>>) : m \in RouteMessages}
    \cup {NewError(StatusNotFound, m, <<>>) : m \in RouteMessages}
Outcomes ==
    {[kind |-> "return", err |-> e] : e \in {NilError} \cup RouteErrors}
    \cup {[kind |-> "panic", err |-> NilError]}
Behaviours == [pre : PreWrites, out : Outcomes]

\* the writes of the handler body
HandlerWrites(w, pre) ==
    CASE pre = "Write"   -> Write(w, "test")
      [] pre = "Respond" -> Respond(w, StatusOK, "ok")
      [] OTHER           -> w

\* mutant: the adapter renders whatever the handler returned
RouteRendersAlways(err) == TRUE

\* if err := r(w, req); err != nil
RouteRenders(err) == err # NilError

\* Route.ServeHTTP(w, req) for a handler that behaves as b:
\* [w, slog, renders, mode] afterwards
RouteServeHTTP(w, b) ==
    LET w1 == HandlerWrites(WithCaller(w, "handler"), b.pre)
    IN  IF b.out.kind = "panic"
        THEN [w |-> w1, slog |-> slog, renders |-> renders, mode |-> "panic"]
        ELSE IF RouteRenders(b.out.err)
        THEN LET out == CallErrorHandler(ActiveErrorHandler, WithCaller(w1, "policy"),
                                         b.out.err)
             IN  [w |-> out.w,
                  slog |-> Append(slog, out.log),
                  renders |-> Append(renders,
                                     Render("route", ActiveErrorHandler, b.out.err)),
                  mode |-> "out"]
        ELSE [w |-> w1, slog |-> slog, renders |-> renders, mode |-> "out"]

RouteServe(b) ==
    /\ mode = "in"
    /\ chain = <<"route">>
    /\ LET r == RouteServeHTTP(WriterAt(stack, "route"), b)
       IN  /\ Written(r.w, <<>>)
           /\ slog' = r.slog
           /\ renders' = r.renders
           /\ mode' = r.mode
    /\ ran' = Append(ran, b)
    /\ trace' = Append(trace, RunEvent("route"))
    /\ chain' = <<>>
    /\ UNCHANGED <<DefaultErrorHandler, mw, routes, lastSetup, req, renderVars, unitVars>>

\* Router.ServeHTTP returns to its caller, or the panic leaves it
Return ==
    /\ mode \in {"out", "panic"}
    /\ stack = <<>>
    /\ mode' = IF mode = "out" THEN "done" ELSE "aborted"
    /\ UNCHANGED <<DefaultErrorHandler, mw, routes, lastSetup, requestVars, renderVars, unitVars>>

\* the caller is done with the response: the next request gets a new recorder
NextRequest ==
    /\ mode \in {"done", "aborted"}
    /\ mode' = "idle"
    /\ req' = NoRequest
    /\ chain' = <<>>
    /\ stack' = <<>>
    /\ rec' = NewRecorder
    /\ calls' = <<>>
    /\ trace' = <<>>
    /\ slog' = <<>>
    /\ renders' = <<>>
    /\ ran' = <<>>
    /\ UNCHANGED <<DefaultErrorHandler, mw, routes, lastSetup, renderVars, unitVars>>

Middlewares(n) == SeqsUpTo(GlobalMiddleware, n) \ {<<>>}

Next ==
    \/ \E ms \in Middlewares(MaxGlobalMw) : Use(ms)
    \/ \E m \in Methods, p \in Patterns, ms \in RouteMiddlewareLists : route(m, p, ms)
    \/ \E policy \in {"default", "custom"} : SetErrorHandler(policy)
    \/ \E m \in Methods, p \in Paths : ServeHTTP(m, p)
    \/ TagEnter
    \/ LoggerEnter
    \/ RecoverEnter
    \/ MuxServe
    \/ \E b \in Behaviours : RouteServe(b)
    \/ TagExit
    \/ LoggerExit
    \/ RecoverExit
    \/ Return
    \/ NextRequest

Spec == Init /\ [][Next]_vars

(***************************************************************************)
(* The render policy on its own: defaultErrorHandler applied to a pair of  *)
(* errors, each on its own writer, as the tests of the policy call it.     *)
(* The writer is new, or one a handler has written a body to already, and  *)
(* it sits behind one responseWriter (a Logger frame).                     *)
(***************************************************************************)
FlagLists == {<<>>, <<FALSE>>, <<TRUE>>}

RenderErrors ==
    {PlainError(m) : m \in Messages}
    \cup {NewError(st, m, fl) : st \in Statuses, m \in Messages, fl \in FlagLists}

RenderRecorders == {NewRecorder, RecWrite(NewRecorder, "test")}

InitRender ==
    /\ DefaultErrorHandler = "default"
    /\ mw = <<>>
    /\ routes = {}
    /\ lastSetup = "none"
    /\ mode = "idle"
    /\ FreshRequest
    /\ rIn \in [errs : RenderErrors \X RenderErrors, rec : RenderRecorders]
    /\ rOut = <<>>
    /\ obs = NoObserver
    /\ conc = NoRequests

RenderOne(rc, err) ==
    defaultErrorHandler(Writer(rc, <<>>, <<Frame("Logger")>>, "policy"), err).w

RenderPair ==
    /\ rOut = <<>>
    /\ rOut' = <<RenderOne(rIn.rec, rIn.errs[1]), RenderOne(rIn.rec, rIn.errs[2])>>
    /\ UNCHANGED <<dispatchVars, rIn, unitVars>>

NextRender == RenderPair

SpecRender == InitRender /\ [][NextRender]_vars

(***************************************************************************)
(* The responseWriter on its own: one responseWriter over a new recorder,  *)
(* as TestResponseWriter builds it, and a bounded sequence of calls on it: *)
(* Header().Set, Write, WriteHeader and RespondJSON.  obs keeps the writer *)
(* before and after the latest call and what that call returned.           *)
(***************************************************************************)
MaxOps == 3

WriterStatuses == {StatusOK, StatusInternalServerError}

NoPayload == [encodable |-> FALSE, key |-> <<>>, value |-> <<>>]

\* map[string]string{"id": id} of the README, and a value json.Marshal
\* rejects (a channel, a function)
Payloads == {[encodable |-> TRUE, key |-> <<"i", "d">>, value |-> <<"a">>], NoPayload}

Op(op, status, payload) == [op |-> op, status |-> status, payload |-> payload]

\* rw := responseWriter{w: &w, status: &status} over httptest.NewRecorder()
NewResponseWriter == Writer(NewRecorder, <<>>, <<Frame("Logger")>>, "handler")

InitWriter ==
    /\ DefaultErrorHandler = "default"
    /\ mw = <<>>
    /\ routes = {}
    /\ lastSetup = "none"
    /\ mode = "idle"
    /\ FreshRequest
    /\ rIn = <<>>
    /\ rOut = <<>>
    /\ obs = [w |-> NewResponseWriter, prev |-> NewResponseWriter, ops |-> <<>>,
              err |-> FALSE]
    /\ conc = NoRequests

\* the state after a call that left the writer w and returned err
Called(op, w, err) ==
    /\ Len(obs.ops) < MaxOps
    /\ obs' = [w |-> w, prev |-> obs.w, ops |-> Append(obs.ops, op), err |-> err]
    /\ UNCHANGED <<dispatchVars, renderVars, conc>>

CallHeader ==
    Called(Op("Header", 0, NoPayload), HeaderSet(obs.w, "X-Test", "test"), FALSE)

CallWrite ==
    Called(Op("Write", 0, NoPayload), Write(obs.w, "test"), FALSE)

CallWriteHeader(status) ==
    Called(Op("WriteHeader", status, NoPayload), WriteHeader(obs.w, status), FALSE)

CallRespondJSON(status, payload) ==
    LET out == RespondJSON(obs.w, status, payload)
    IN  Called(Op("RespondJSON", status, payload), out.w, out.err)

NextWriter ==
    \/ CallHeader
    \/ CallWrite
    \/ \E st \in WriterStatuses : CallWriteHeader(st)
    \/ \E st \in WriterStatuses, p \in Payloads : CallRespondJSON(st, p)

SpecWriter == InitWriter /\ [][NextWriter]_vars

(***************************************************************************)
(* LoggerMiddleware under concurrent requests.  net/http serves every      *)
(* request on its own goroutine, so the steps of several requests through  *)
(* one LoggerMiddleware handler interleave.  Memory is modelled as cells:  *)
(* `status := 0` in the handler function allocates the cell of the call,   *)
(* the responseWriter of the call points to it.  Each request has its own  *)
(* underlying writer, as the server gives it.                              *)
(***************************************************************************)
NumRequests == 2
MaxWrites == 2

Requests == 1 .. NumRequests

\* mutant: status is declared once, outside the handler function
CellShared(r) == 1

\* status := 0 inside the handler function: one variable for each call
CellOf(r) == r

\* the responseWriter of request r: rw := responseWriter{w: &w, status: &status}
ResponseWriterOf(r) ==
    Writer(conc.reqs[r].rec, <<>>,
           <<[Frame("Logger") EXCEPT !.status = conc.cells[CellOf(r)]]>>, "handler")

NewRequest ==
    [pc |-> "idle", codes |-> <<>>, rec |-> NewRecorder, logged |-> 0,
     overlapped |-> FALSE]

InitConcurrent ==
    /\ DefaultErrorHandler = "default"
    /\ mw = <<>>
    /\ routes = {}
    /\ lastSetup = "none"
    /\ mode = "idle"
    /\ FreshRequest
    /\ rIn = <<>>
    /\ rOut = <<>>
    /\ obs = NoObserver
    /\ conc = [reqs |-> [r \in Requests |-> NewRequest],
               cells |-> [c \in Requests |-> 0]]

\* LoggerMiddleware up to next.ServeHTTP(rw, r), for request r
LoggerBegin(r) ==
    /\ conc.reqs[r].pc = "idle"
    /\ conc' = [reqs |-> [q \in Requests |->
                    IF q = r
                    THEN [conc.reqs[q] EXCEPT
                             !.pc = "in",
                             !.overlapped = \E o \in Requests : conc.reqs[o].pc = "in"]
                    ELSE IF conc.reqs[q].pc = "in"
                         THEN [conc.reqs[q] EXCEPT !.overlapped = TRUE]
                         ELSE conc.reqs[q]],
                cells |-> [conc.cells EXCEPT ![CellOf(r)] = 0]]
    /\ UNCHANGED <<dispatchVars, renderVars, obs>>

\* the handler of request r calls rw.WriteHeader(status)
HandlerWriteHeader(r, status) ==
    /\ conc.reqs[r].pc = "in"
    /\ Len(conc.reqs[r].codes) < MaxWrites
    /\ LET w == WriteHeader(ResponseWriterOf(r), status)
       IN  conc' = [reqs |-> [conc.reqs EXCEPT ![r].codes = Append(@, status),
                                               ![r].rec = w.rec],
                    cells |-> [conc.cells EXCEPT ![CellOf(r)] = w.frames[1].status]]
    /\ UNCHANGED <<dispatchVars, renderVars, obs>>

\* the deferred function of LoggerMiddleware, for request r
LoggerEnd(r) ==
    /\ conc.reqs[r].pc = "in"
    /\ conc' = [conc EXCEPT !.reqs[r].pc = "done",
                            !.reqs[r].logged = LoggedStatus(ResponseWriterOf(r).frames[1])]
    /\ UNCHANGED <<dispatchVars, renderVars, obs>>

NextConcurrent ==
    \/ \E r \in Requests : LoggerBegin(r)
    \/ \E r \in Requests, st \in WriterStatuses : HandlerWriteHeader(r, st)
    \/ \E r \in Requests : LoggerEnd(r)

SpecConcurrent == InitConcurrent /\ [][NextConcurrent]_vars

(***************************************************************************)
(* Vocabulary of the properties                                            *)
(***************************************************************************)
RECURSIVE Reverse(_)
Reverse(s) == IF s = <<>> THEN <<>> ELSE Append(Reverse(Tail(s)), Head(s))

IsPrefix(s, t) == Len(s) <= Len(t) /\ s = SubSeq(t, 1, Len(s))

\* s can be got from t by leaving elements out
RECURSIVE IsSubseq(_, _)
IsSubseq(s, t) ==
    IF s = <<>> THEN TRUE
    ELSE IF t = <<>> THEN FALSE
    ELSE IF Head(s) = Head(t) THEN IsSubseq(Tail(s), Tail(t))
    ELSE IsSubseq(s, Tail(t))

IsEv(e, ev) == e.ev = ev
IsIn(e) == IsEv(e, "in")
IsOut(e) == IsEv(e, "out")
IsRun(e) == IsEv(e, "run")
LayersOf(events) == [i \in DOMAIN events |-> events[i].layer]

\* the middleware entered so far, and the middleware left so far, in order
Entered == LayersOf(SelectSeq(trace, IsIn))
Left == LayersOf(SelectSeq(trace, IsOut))

Serving == mode # "idle"
Found == Lookup(req.method, req.path)
Matched == Serving /\ Found.kind = "match"

\* the per-route middleware of the matched route, as given at registration
PerRoute == IF Matched THEN SubSeq(Found.handler, 1, Len(Found.handler) - 1) ELSE <<>>

HandlerReturned == ran # <<>> /\ ran[1].out.kind = "return"
HandlerPanicked == ran # <<>> /\ ran[1].out.kind = "panic"
ReturnedError == HandlerReturned /\ ran[1].out.err # NilError
ReturnedNil == HandlerReturned /\ ran[1].out.err = NilError

\* C1: the middleware of a request is entered in the order global[0], global[1],
\* ..., then the per-route middleware in its order, then the route handler; the
\* parts after next run in the reverse order of entry, and all of them run when
\* the handler returns.
MiddlewareOrder ==
    Serving =>
        /\ IsPrefix(Entered, mw \o PerRoute)
        /\ IsSubseq(Left, Reverse(Entered))
        /\ ran # <<>> => /\ Entered = mw \o PerRoute
                         /\ trace[Len(mw) + 1] = RunEvent("mux")
                         /\ trace[Len(Entered) + 2] = RunEvent("route")
        /\ (mode = "done" /\ ~HandlerPanicked) => Left = Reverse(mw \o PerRoute)

MiddlewareOrderWitness ==
    /\ mode = "done"
    /\ mw = <<"A", "B">>
    /\ PerRoute = <<"C">>
    /\ trace = <<InEvent("A"), InEvent("B"), RunEvent("mux"), InEvent("C"),
                 RunEvent("route"), OutEvent("C"), OutEvent("B"), OutEvent("A")>>

IsRouteRender(r) == r.by = "route"
IsRecoverRender(r) == r.by = "recover"

\* C2: a handler runs once per dispatch; if it returns a non-nil error the
\* adapter calls the active render policy exactly once, with that error; if it
\* returns nil no policy is called and nothing is written besides the
\* handler's own writes.
RenderedExactlyOnce ==
    ran # <<>> =>
        /\ Len(ran) = 1
        /\ ReturnedError =>
              renders = <<Render("route", DefaultErrorHandler, ran[1].out.err)>>
        /\ ReturnedNil =>
              /\ renders = <<>>
              /\ \A i \in DOMAIN calls : calls[i].by \in Tags \cup {"handler"}
        /\ HandlerPanicked => SelectSeq(renders, IsRouteRender) = <<>>

RenderedExactlyOnceWitness ==
    /\ mode = "done"
    /\ ReturnedError
    /\ Len(renders) = 1
    /\ rec.wroteHeader

\* what a response body must look like on the wire for an error text: the
\* compact JSON object with the one key "error"
WireChar(c) ==
    IF c = "\"" THEN "\\\"" ELSE IF c = "<" THEN "\\u003c" ELSE c

RECURSIVE WireText(_)
WireText(text) == IF text = <<>> THEN "" ELSE WireChar(Head(text)) \o WireText(Tail(text))

ErrorBody(text) == "{\"error\":\"" \o WireText(text) \o "\"}"
GenericBody == "{\"error\":\"internal server error\"}"

IsPolicyCall(c) == c.by = "policy"
PolicyCalls == SelectSeq(calls, IsPolicyCall)

\* the three calls a render of (status, body) makes on its writer
WritesOf(cl) == [i \in DOMAIN cl |-> <<cl[i].op, cl[i].status, cl[i].text>>]
RenderWrites(status, body) ==
    <<(<<"Header.Set", 0, "Content-Type: application/json">>),
      (<<"WriteHeader", status, "">>),
      (<<"Write", 0, body>>)>>

UnclassifiedReturned ==
    /\ mode = "done"
    /\ Matched
    /\ ReturnedError
    /\ ran[1].out.err.kind = "plain"
    /\ DefaultErrorHandler = "default"

\* C3 as stated: every route that returns an unclassified error gets the
\* response 500 {"error":"internal server error"} under the default policy.
UnclassifiedIs500 ==
    UnclassifiedReturned =>
        /\ rec.code = StatusInternalServerError
        /\ rec.body = GenericBody

\* C3 amended: the default policy always makes the writes of a 500 with the
\* generic body, whatever the message; they are the response (status 500,
\* body exactly the generic object) when the handler wrote nothing before
\* it returned the error.
UnclassifiedIs500Unwritten ==
    UnclassifiedReturned =>
        /\ WritesOf(PolicyCalls) = RenderWrites(StatusInternalServerError, GenericBody)
        /\ ran[1].pre = "none" =>
              /\ rec.code = StatusInternalServerError
              /\ rec.body = GenericBody
              /\ rec.sent["Content-Type"] = "application/json"

UnclassifiedIs500Witness ==
    /\ UnclassifiedReturned
    /\ ran[1].pre = "none"
    /\ ran[1].out.err.msg = <<"\"">>
    /\ rec.code = StatusInternalServerError
    /\ rec.body = GenericBody

Rendered == rOut # <<>>
IsExposed(e) == \E fl \in {<<TRUE>>} : e = NewError(e.status, e.msg, fl)
IsHidden(e) == \E fl \in {<<>>, <<FALSE>>} : e = NewError(e.status, e.msg, fl)

\* C4: for an error NewError(S, M, true) the default policy writes status S
\* and the body {"error":"M"} (M as a JSON string); on a new writer they are
\* the response.
ExposedErrorRendered ==
    Rendered =>
        \A i \in {1, 2} :
            IsExposed(rIn.errs[i]) =>
                /\ WritesOf(rOut[i].calls) =
                       RenderWrites(rIn.errs[i].status, ErrorBody(rIn.errs[i].msg))
                /\ rIn.rec = NewRecorder =>
                       /\ rOut[i].rec.code = rIn.errs[i].status
                       /\ rOut[i].rec.body = ErrorBody(rIn.errs[i].msg)

ExposedErrorRenderedWitness ==
    /\ Rendered
    /\ rIn.rec = NewRecorder
    /\ rIn.errs[1] = NewError(StatusNotFound, <<"a", "a">>, <<TRUE>>)
    /\ rOut[1].rec.code = StatusNotFound
    /\ rOut[1].rec.body = "{\"error\":\"aa\"}"

\* C5: for errors whose message is not exposed (flag false, or omitted in the
\* NewError call) the body written is the generic one for every status, and
\* two such errors with the same status and different messages get the same
\* response.
NoMessageLeak ==
    Rendered =>
        /\ \A i \in {1, 2} :
              IsHidden(rIn.errs[i]) =>
                  /\ WritesOf(rOut[i].calls) =
                         RenderWrites(rIn.errs[i].status, GenericBody)
                  /\ rIn.rec = NewRecorder => rOut[i].rec.body = GenericBody
        /\ ( /\ IsHidden(rIn.errs[1])
             /\ IsHidden(rIn.errs[2])
             /\ rIn.errs[1].status = rIn.errs[2].status ) => rOut[1] = rOut[2]

NoMessageLeakWitness ==
    /\ Rendered
    /\ rIn.rec = NewRecorder
    /\ rIn.errs[1] = NewError(StatusMethodNotAllowed, <<"a">>, <<>>)
    /\ rIn.errs[2] = NewError(StatusMethodNotAllowed, <<"<", "\"">>, <<FALSE>>)
    /\ rOut[1] = rOut[2]
    /\ rOut[1].rec.body = GenericBody

FullChain == mw \o PerRoute
IsRecoverLog(l) == l.msg = "recovering from panic"
IsLoggerLog(l) == l.msg = "logger"
IsBuiltinLog(l) == l.msg = "[httpd]"
RecoverRenders == SelectSeq(renders, IsRecoverRender)

\* a Recover middleware is around the route handler
HasRecover == \E i \in DOMAIN FullChain : FullChain[i] = "Recover"
PanicBelowRecover == Matched /\ HandlerPanicked /\ HasRecover

\* the place in the chain of the Recover that caught the panic
RecoveredAt == SelectSeq(slog, IsRecoverLog)[1].depth

\* C6 as stated: a panic below Recover never leaves ServeHTTP, the status is
\* 500 and the Connection: close header is set.
PanicIs500 ==
    PanicBelowRecover =>
        /\ mode # "aborted"
        /\ mode = "done" =>
              /\ rec.code = StatusInternalServerError
              /\ rec.header["Connection"] = "close"

\* C6 amended: the panic ends at the innermost Recover around the handler,
\* whose callers return normally; that Recover sets Connection: close and
\* calls the render policy once; with the built-in policy the render is a
\* 500, and it is the response (status 500, header sent) when the handler
\* had written nothing before it panicked.
PanicContained ==
    PanicBelowRecover =>
        /\ mode # "aborted"
        /\ mode = "panic" => \E i \in DOMAIN stack : stack[i].kind = "Recover"
        /\ mode \in {"out", "done"} =>
              /\ Len(RecoverRenders) = 1
              /\ FullChain[RecoveredAt] = "Recover"
              /\ \A i \in RecoveredAt + 1 .. Len(FullChain) : FullChain[i] # "Recover"
              /\ rec.header["Connection"] = "close"
              /\ DefaultErrorHandler = "default" =>
                    /\ WritesOf(PolicyCalls) =
                           RenderWrites(StatusInternalServerError, GenericBody)
                    /\ ran[1].pre = "none" =>
                          /\ rec.code = StatusInternalServerError
                          /\ rec.sent["Connection"] = "close"
        /\ mode = "done" =>
              SubSeq(Left, Len(Left) - RecoveredAt + 1, Len(Left))
                  = Reverse(SubSeq(FullChain, 1, RecoveredAt))

PanicContainedWitness ==
    /\ PanicBelowRecover
    /\ mode = "done"
    /\ mw = <<"A", "Recover">>
    /\ PerRoute = <<"C">>
    /\ ran[1].pre = "none"
    /\ rec.code = StatusInternalServerError
    /\ rec.sent["Connection"] = "close"
    /\ Left = <<"Recover", "A">>

\* the Logger frames that have a Recover further in
OuterLoggers ==
    {i \in DOMAIN FullChain :
        /\ FullChain[i] = "Logger"
        /\ \E j \in i + 1 .. Len(FullChain) : FullChain[j] = "Recover"}

LoggerRecords == SelectSeq(slog, IsLoggerLog)

\* the code of the latest WriteHeader call that passed through the
\* responseWriter of the Logger at place d of the chain, 0 if there is none
LastStatusBelow(d) ==
    LET hs == SelectSeq(calls, LAMBDA c : c.op = "WriteHeader" /\ c.depth >= d)
    IN  IF hs = <<>> THEN 0 ELSE hs[Len(hs)].status

\* C7 as stated: with Logger registered before Recover, the status Logger
\* records is the status written to the response.
LoggerSeesWritten ==
    (mode = "done" /\ Matched /\ rec.wroteHeader) =>
        \A i \in DOMAIN LoggerRecords :
            LoggerRecords[i].depth \in OuterLoggers =>
                LoggerRecords[i].status = rec.code

\* C7 amended: Logger records the code of the latest WriteHeader call made
\* below it, 0 if there was none; registered before Recover, after a handler
\* panic that Recover renders with the built-in policy it records 500 and not
\* 0, and that is the status written when the handler had written nothing.
LoggerSeesLastStatus ==
    Serving =>
        \A i \in DOMAIN LoggerRecords :
            LET l == LoggerRecords[i]
            IN  /\ l.status = LastStatusBelow(l.depth)
                /\ ( /\ PanicBelowRecover
                     /\ l.depth \in OuterLoggers
                     /\ l.depth < RecoveredAt
                     /\ DefaultErrorHandler = "default" ) =>
                        /\ l.status = StatusInternalServerError
                        /\ ran[1].pre = "none" => l.status = rec.code

LoggerSeesLastStatusWitness ==
    /\ mode = "done"
    /\ mw = <<"Logger", "Recover">>
    /\ PanicBelowRecover
    /\ ran[1].pre = "Respond"
    /\ LoggerRecords = <<[msg |-> "logger", depth |-> 1,
                          status |-> StatusInternalServerError]>>
    /\ rec.code = StatusOK

\* the request's path is registered, but not with the request's method
MethodMiss ==
    /\ Serving
    /\ \E r \in routes : r.pattern = req.path
    /\ ~\E r \in routes : r.pattern = req.path /\ r.method = req.method

\* the request's path is not registered
PatternMiss == Serving /\ ~\E r \in routes : r.pattern = req.path

\* C8: a request whose method does not match a registered pattern gets 405, a
\* request whose path is not registered gets 404; no route handler runs and
\* no render policy is called.
RoutingMiss ==
    (MethodMiss \/ PatternMiss) =>
        /\ ran = <<>>
        /\ renders = <<>>
        /\ mode \notin {"panic", "aborted"}
        /\ \A i \in DOMAIN trace : trace[i] # RunEvent("route")
        /\ mode \in {"out", "done"} =>
              /\ MethodMiss => rec.code = StatusMethodNotAllowed
              /\ PatternMiss => rec.code = StatusNotFound

RoutingMissWitness ==
    /\ mode = "done"
    /\ MethodMiss
    /\ mw # <<>>
    /\ rec.code = StatusMethodNotAllowed
    /\ rec.header["Allow"] # req.method

Failed == ReturnedError \/ (HandlerPanicked /\ HasRecover)

\* the status the failure resolves to
FailureStatus ==
    IF ReturnedError /\ ran[1].out.err.kind = "status"
    THEN ran[1].out.err.status
    ELSE StatusInternalServerError

IsErrorObject(body) ==
    \E text \in RouteMessages \cup {InternalServerErrorText} : body = ErrorBody(text)

\* C9 as stated: whenever a route returns an error, or panics below Recover,
\* the body is one JSON object with an "error" key and the status is the
\* resolved status, whatever the handler did to the response before.
FailureIsErrorJson ==
    (mode = "done" /\ Matched /\ Failed) =>
        /\ IsErrorObject(rec.body)
        /\ rec.code = FailureStatus

\* C9 amended: the same, for a handler that had written nothing to the
\* response before it failed, under the built-in render policy.
FailureIsErrorJsonUnwritten ==
    ( /\ mode = "done"
      /\ Matched
      /\ Failed
      /\ ran[1].pre = "none"
      /\ DefaultErrorHandler = "default" ) =>
        /\ IsErrorObject(rec.body)
        /\ rec.code = FailureStatus
        /\ rec.wroteHeader

FailureIsErrorJsonWitness ==
    /\ mode = "done"
    /\ Matched
    /\ ran[1] = [pre |-> "none",
                 out |-> [kind |-> "return",
                          err |-> NewError(StatusNotFound, <<"\"">>, <<TRUE>>)]]
    /\ DefaultErrorHandler = "default"
    /\ rec.code = StatusNotFound
    /\ rec.body = "{\"error\":\"\\\"\"}"

\* C10: every render of a request calls the function the variable
\* DefaultErrorHandler holds at the call; once the variable holds a
\* replacement, the built-in policy is not called: it neither logs nor writes.
PolicyReadAtUse ==
    Serving =>
        /\ \A i \in DOMAIN renders : renders[i].policy = DefaultErrorHandler
        /\ DefaultErrorHandler = "custom" =>
              /\ PolicyCalls = <<>>
              /\ SelectSeq(slog, IsBuiltinLog) = <<>>
        /\ DefaultErrorHandler = "default" =>
              Len(SelectSeq(slog, IsBuiltinLog)) = Len(renders)

PolicyReadAtUseWitness ==
    /\ mode = "done"
    /\ lastSetup = "SetErrorHandler"
    /\ DefaultErrorHandler = "custom"
    /\ routes # {}
    /\ mw # <<>>
    /\ renders = <<Render("recover", "custom", PlainError(RecoveringText))>>
    /\ rec.wroteHeader = FALSE

(***************************************************************************)
(* The responseWriter and RespondJSON on their own (SpecWriter)            *)
(***************************************************************************)
IsWriteHeaderCall(c) == c.op = "WriteHeader"

\* the statuses the calls made so far asked to be written: a WriteHeader, and
\* a RespondJSON of a payload that can be encoded
IsStatusOp(o) ==
    \/ o.op = "WriteHeader"
    \/ o.op = "RespondJSON" /\ o.payload.encodable
RequestedCodes == [i \in DOMAIN SelectSeq(obs.ops, IsStatusOp) |->
                      SelectSeq(obs.ops, IsStatusOp)[i].status]

\* the statuses that reached the underlying writer
ForwardedCodes == [i \in DOMAIN SelectSeq(obs.w.calls, IsWriteHeaderCall) |->
                      SelectSeq(obs.w.calls, IsWriteHeaderCall)[i].status]

Observing == obs # NoObserver
CapturedStatus == obs.w.frames[1].status
LastOp == obs.ops[Len(obs.ops)]
\* the calls the latest operation made on the underlying writer
LastCalls == SubSeq(obs.w.calls, Len(obs.prev.calls) + 1, Len(obs.w.calls))
OpsOf(cs) == [i \in DOMAIN cs |-> cs[i].op]

\* C11: after any sequence of Header, Write and WriteHeader calls on a
\* responseWriter, the captured status is the code of the latest WriteHeader,
\* or the initial 0 when there was none; every WriteHeader assigns the
\* captured status once and forwards the same code to the underlying writer;
\* Header and Write are forwarded and leave the captured status alone.
ObserverCapturesLast ==
    Observing =>
        /\ CapturedStatus = IF RequestedCodes = <<>> THEN 0
                            ELSE RequestedCodes[Len(RequestedCodes)]
        /\ obs.w.frames[1].writes = Len(RequestedCodes)
        /\ ForwardedCodes = RequestedCodes
        /\ (obs.ops # <<>> /\ LastOp.op = "WriteHeader") =>
              /\ obs.w.frames[1].writes = obs.prev.frames[1].writes + 1
              /\ OpsOf(LastCalls) = <<"WriteHeader">>
              /\ LastCalls[1].status = LastOp.status
        /\ (obs.ops # <<>> /\ LastOp.op \in {"Header", "Write"}) =>
              /\ obs.w.frames = obs.prev.frames
              /\ OpsOf(LastCalls) =
                     <<IF LastOp.op = "Header" THEN "Header.Set" ELSE "Write">>

ObserverCapturesLastWitness ==
    /\ Observing
    /\ obs.ops = <<Op("WriteHeader", StatusOK, NoPayload),
                   Op("Write", 0, NoPayload),
                   Op("WriteHeader", StatusInternalServerError, NoPayload)>>
    /\ CapturedStatus = StatusInternalServerError
    /\ obs.w.rec.code = StatusOK

\* C18: RespondJSON is all or nothing.  When the payload cannot be encoded
\* it returns the error and the response is as it was: no header set, no
\* status, no body.  When it can, it sets Content-Type: application/json,
\* then writes the status, then the body, and returns nil.
RespondJSONAllOrNothing ==
    (Observing /\ obs.ops # <<>> /\ LastOp.op = "RespondJSON") =>
        IF LastOp.payload.encodable
        THEN /\ ~obs.err
             /\ OpsOf(LastCalls) = <<"Header.Set", "WriteHeader", "Write">>
             /\ LastCalls[1].text = "Content-Type: application/json"
             /\ LastCalls[2].status = LastOp.status
             /\ LastCalls[3].text = "{\"id\":\"a\"}"
             /\ obs.w.rec.header["Content-Type"] = "application/json"
        ELSE /\ obs.err
             /\ obs.w = obs.prev

RespondJSONAllOrNothingWitness ==
    /\ Observing
    /\ obs.ops = <<Op("RespondJSON", StatusOK, NoPayload),
                   Op("RespondJSON", StatusInternalServerError,
                      [encodable |-> TRUE, key |-> <<"i", "d">>, value |-> <<"a">>])>>
    /\ obs.prev = NewResponseWriter
    /\ obs.w.rec.code = StatusInternalServerError
    /\ obs.w.rec.sent["Content-Type"] = "application/json"
    /\ obs.w.rec.body = "{\"id\":\"a\"}"

(***************************************************************************)
(* Logger, Recover and the two middleware lists, request by request (Spec) *)
(***************************************************************************)
\* the places of the chain of the request where a Logger sits
LoggerPlaces == {i \in DOMAIN FullChain : FullChain[i] = "Logger"}
IsMuxRun(e) == e = RunEvent("mux")
MuxRan == SelectSeq(trace, IsMuxRun) # <<>>
Finished == mode \in {"done", "aborted"}

\* C12: every Logger a request passes through writes one record for it, not
\* before everything below it has finished, and also when the handler
\* panics, whether the panic is recovered below the Logger or unwinds
\* through it (and, without a Recover, out of ServeHTTP).
LoggerOncePerRequest ==
    /\ mode = "in" => LoggerRecords = <<>>
    /\ \A i \in DOMAIN LoggerRecords :
          /\ MuxRan
          /\ chain = <<>>
          /\ Len(stack) < LoggerRecords[i].depth
          /\ \A j \in DOMAIN LoggerRecords : j # i =>
                 LoggerRecords[j].depth # LoggerRecords[i].depth
    /\ Finished =>
          {LoggerRecords[i].depth : i \in DOMAIN LoggerRecords} = LoggerPlaces

LoggerOncePerRequestWitness ==
    /\ mode = "aborted"
    /\ HandlerPanicked
    /\ mw = <<"Logger", "Logger">>
    /\ Len(LoggerRecords) = 2
    /\ Len(slog) = 2

IsCloseCall(c) == c.op = "Header.Set" /\ c.text = "Connection: close"
CloseCalls == SelectSeq(calls, IsCloseCall)
RecoverLogs == SelectSeq(slog, IsRecoverLog)
RecoverPlaces == {i \in DOMAIN FullChain : FullChain[i] = "Recover"}
InnermostRecover == CHOOSE i \in RecoverPlaces : \A j \in RecoverPlaces : j <= i

\* C13: with Recover installed at several places around a handler, global
\* and per-route, a panic of the handler is recovered once: by the
\* innermost Recover, with one Connection: close, one call of the render
\* policy and one log record; it is not raised again, so the Recovers
\* further out see a normal return.
RecoveredOnce ==
    PanicBelowRecover =>
        /\ mode # "aborted"
        /\ Len(renders) <= 1
        /\ Len(CloseCalls) <= 1
        /\ Len(RecoverLogs) <= 1
        /\ RecoverLogs # <<>> =>
              /\ mode \in {"out", "done"}
              /\ RecoveredAt = InnermostRecover
              /\ Len(renders) = 1
              /\ Len(CloseCalls) = 1
        /\ mode = "done" =>
              /\ Len(RecoverLogs) = 1
              /\ Len(RecoverRenders) = 1

RecoveredOnceWitness ==
    /\ mode = "done"
    /\ HandlerPanicked
    /\ mw = <<"Recover", "Recover">>
    /\ PerRoute = <<"Recover">>
    /\ RecoveredAt = 3
    /\ Len(renders) = 1
    /\ Len(CloseCalls) = 1

\* the routes registered for the method and the path of the request, and
\* the middleware a route was registered with
OwnRoutes == {r \in routes : r.method = req.method /\ r.pattern = req.path}
MiddlewareOf(r) == SubSeq(r.handler, 1, Len(r.handler) - 1)
\* the middleware entered after the global ones
EnteredBelowMux == SubSeq(Entered, Len(mw) + 1, Len(Entered))

\* C14: every global middleware runs on every request handed to
\* Router.ServeHTTP, the requests the mux answers with 404 or 405 included;
\* the per-route middleware of a route runs for the requests that match the
\* route and for no other: not for another route, not for a miss.
MiddlewareScope ==
    Serving =>
        /\ ~MuxRan => IsPrefix(Entered, mw)
        /\ MuxRan =>
              /\ IsPrefix(mw, Entered)
              /\ OwnRoutes = {} => EnteredBelowMux = <<>>
              /\ OwnRoutes # {} =>
                    \E r \in OwnRoutes :
                        /\ IsPrefix(EnteredBelowMux, MiddlewareOf(r))
                        /\ ran # <<>> => EnteredBelowMux = MiddlewareOf(r)
        /\ (mode = "done" /\ OwnRoutes = {}) =>
              /\ Entered = mw
              /\ Left = Reverse(mw)
              /\ ran = <<>>

MiddlewareScopeWitness ==
    /\ mode = "done"
    /\ req = [method |-> "POST", path |-> "/a"]
    /\ routes = {Registration("GET", "/a", <<"C">>)}
    /\ mw = <<"A", "Logger">>
    /\ Entered = <<"A", "Logger">>
    /\ rec.code = StatusMethodNotAllowed

IsWriteCall(c) == c.op = "Write"
\* the response got a body and no WriteHeader call was made on any writer
BodyWithoutStatus ==
    /\ SelectSeq(calls, IsWriteCall) # <<>>
    /\ SelectSeq(calls, IsWriteHeaderCall) = <<>>

\* C15: Logger reports the captured status as it is.  When the response got
\* a body and no explicit WriteHeader, the underlying writer sends the
\* implicit 200 and Logger records 0: it does not turn 0 into 200.
LoggerReportsVerbatim ==
    (Serving /\ BodyWithoutStatus) =>
        /\ rec.wroteHeader
        /\ rec.code = StatusOK
        /\ \A i \in DOMAIN LoggerRecords : LoggerRecords[i].status = 0

LoggerReportsVerbatimWitness ==
    /\ mode = "done"
    /\ Matched
    /\ ReturnedNil
    /\ ran[1].pre = "Write"
    /\ BodyWithoutStatus
    /\ mw = <<"Logger">>
    /\ rec.code = StatusOK
    /\ rec.body = "test"
    /\ LoggerRecords = <<[msg |-> "logger", depth |-> 1, status |-> 0]>>

\* C17: serving a request changes neither the global middleware list nor
\* the registrations of the router: from the call of Router.ServeHTTP to the
\* end of the request both stay as they are, and only Use and a
\* registration change them.
DispatchReadsOnly ==
    [][ /\ (mode # "idle" \/ mode' # "idle") => (mw' = mw /\ routes' = routes)
        /\ mw' # mw => lastSetup' = "Use"
        /\ routes' # routes => lastSetup' = "route" ]_vars

DispatchReadsOnlyWitness ==
    /\ mode = "done"
    /\ lastSetup = "SetErrorHandler"
    /\ mw = <<"A", "Recover">>
    /\ Cardinality(routes) = 2
    /\ Matched
    /\ Entered = mw \o PerRoute
    /\ ran # <<>>

\* C19: Use appends: the list after a call is the list before it followed
\* by the middleware of the call, in order.  The chain of a request is
\* folded from the list as it is when Router.ServeHTTP is called, so that a
\* route registered before a Use is wrapped by the middleware of that Use;
\* the handler of a route, its per-route middleware included, stays as it
\* was registered.
UseAppendsFoldAtDispatch ==
    [][ /\ mw' # mw =>
              \E ms \in Middlewares(MaxGlobalMw) : mw' = mw \o ms
        /\ (mode = "idle" /\ mode' = "in") => chain' = mw \o <<"mux">>
        /\ \A r \in routes : r \in routes'
        /\ (mode = "in" /\ chain = <<"mux">> /\ OwnRoutes # {}) =>
              \E r \in OwnRoutes : chain' = r.handler ]_vars

UseAppendsFoldAtDispatchWitness ==
    /\ mode = "done"
    /\ lastSetup = "Use"
    /\ routes = {Registration("GET", "/a", <<"C">>)}
    /\ Matched
    /\ mw = <<"A", "B">>
    /\ Entered = <<"A", "B", "C">>
    /\ Left = <<"C", "B", "A">>

(***************************************************************************)
(* Concurrent requests (SpecConcurrent)                                    *)
(***************************************************************************)
Concurrent == conc # NoRequests
LastOr0(codes) == IF codes = <<>> THEN 0 ELSE codes[Len(codes)]

\* C16: requests served at the same time through one LoggerMiddleware do
\* not share the captured status: the status a request has captured, and
\* the status logged for it, is the code of its own latest WriteHeader, or
\* 0, whatever the other requests write in the meantime.
PerRequestStatus ==
    Concurrent =>
        \A r \in Requests :
            /\ conc.reqs[r].pc = "in" =>
                  ResponseWriterOf(r).frames[1].status = LastOr0(conc.reqs[r].codes)
            /\ conc.reqs[r].pc = "done" =>
                  conc.reqs[r].logged = LastOr0(conc.reqs[r].codes)
            /\ conc.reqs[r].rec.code =
                  IF conc.reqs[r].codes = <<>> THEN StatusOK ELSE conc.reqs[r].codes[1]

PerRequestStatusWitness ==
    /\ Concurrent
    /\ \A r \in {1, 2} : conc.reqs[r].pc = "done" /\ conc.reqs[r].overlapped
    /\ conc.reqs[1].codes = <<StatusOK>>
    /\ conc.reqs[1].logged = StatusOK
    /\ conc.reqs[2].codes = <<StatusOK, StatusInternalServerError>>
    /\ conc.reqs[2].logged = StatusInternalServerError

====
